---- MODULE Spec2Model ----
(***************************************************************************)
(* Model of my_model_selectors.py: the four model-selection strategies     *)
(* SelectorConstant, SelectorBIC, SelectorDIC and SelectorCV built on      *)
(* ModelSelector.base_model.                                               *)
(*                                                                         *)
(* The HMM trainer (hmmlearn's GaussianHMM) is an external collaborator.   *)
(* It is seeded (random_state), hence deterministic: its behaviour is an   *)
(* oracle fixed in the initial state.  For every state count the oracle    *)
(* says whether fitting succeeds and what scoring the fitted model         *)
(* yields (a log-likelihood or an exception).  Oracle entries that the     *)
(* chosen strategy can never query are pinned to one value.                *)
(*                                                                         *)
(* Words are numbered 1..nwords and this_word is word 1.  A data view of   *)
(* this word is the set of indices of the sequences it is combined from.   *)
(***************************************************************************)
EXTENDS Integers, Sequences, FiniteSets, TLC

\* ---------------------------------------------------------------- bounds
MinN == 2            \* min_n_components
MaxN == 3            \* max_n_components of the modelled configuration
NConstant == 3       \* n_constant
MaxSeq == 3          \* most sequences of this_word
MaxOthers == 2       \* most words other than this_word
MaxLogL == 2         \* log-likelihoods range over -MaxLogL .. -1
SeqLen == 2          \* frames per sequence
FeatDim == 1         \* len(self.X[0])
MaxSplits == 3       \* the 3 of min(3, len(self.sequences))

Ns == MinN..MaxN
AllNs == Ns \cup {NConstant}
LogLs == (0 - MaxLogL)..(0 - 1)
this_word == 1

Selectors == {"SelectorConstant", "SelectorBIC", "SelectorDIC", "SelectorCV"}

VARIABLES
    selector,      \* the strategy class of the instance
    nseq,          \* len(self.sequences)
    nwords,        \* len(self.words)
    full,          \* oracle: fit on the whole word, score on the whole word
    other,         \* oracle: score of the whole-word model on another word
    fold,          \* oracle: fit on a fold's training part, score on its test part
    partialOK,     \* oracle: a fold-trained model can score the whole word
    X,             \* self.X, self.lengths: the sequences they are combined from
    pc,            \* position inside select()
    n_components,  \* loop variable
    best_score, best_model, hmm_model, logL_arr,
    fold_i,        \* index of the next split yielded by split_method.split
    cv_log,        \* the (n_components, train, test) triples evaluated so far
    outcome,       \* how select() ended
    ret_line       \* source line of the return statement that ended select()

vars == <<selector, nseq, nwords, full, other, fold, partialOK, X, pc,
          n_components, best_score, best_model, hmm_model, logL_arr,
          fold_i, cv_log, outcome, ret_line>>

env == <<selector, nseq, nwords, full, other, fold, partialOK>>

\* ------------------------------------------------------------- values
None == [kind |-> "None", n |-> 0, view |-> {}]
Model(n, view) == [kind |-> "GaussianHMM", n |-> n, view |-> view]

Returned(v) == [kind |-> "returned", val |-> v]
Raised == [kind |-> "raised", val |-> None]
Running == [kind |-> "running", val |-> None]

\* floats: finite rationals num/den (den > 0), the infinities and NaN
Fin(a) == [k |-> "fin", num |-> a, den |-> 1]
Frac(a, b) == [k |-> "fin", num |-> a, den |-> b]
PosInf == [k |-> "inf", num |-> 0, den |-> 1]
NegInf == [k |-> "-inf", num |-> 0, den |-> 1]
NaN == [k |-> "nan", num |-> 0, den |-> 1]

\* a > b on floats; every comparison with NaN is False
FGreater(a, b) ==
    IF a.k = "nan" \/ b.k = "nan" THEN FALSE
    ELSE IF a.k = "-inf" \/ b.k = "inf" THEN FALSE
    ELSE IF a.k = "inf" \/ b.k = "-inf" THEN TRUE
    ELSE a.num * b.den > b.num * a.den

FLess(a, b) == FGreater(b, a)

\* a - b on floats
FSub(a, b) ==
    IF a.k = "nan" \/ b.k = "nan" THEN NaN
    ELSE IF a.k = "fin" /\ b.k = "fin"
         THEN Frac(a.num * b.den - b.num * a.den, a.den * b.den)
    ELSE IF a.k = "fin" THEN (IF b.k = "inf" THEN NegInf ELSE PosInf)
    ELSE IF b.k = "fin" THEN a
    ELSE IF a.k = b.k THEN NaN ELSE a

RECURSIVE SumSeq(_)
SumSeq(s) == IF s = <<>> THEN 0 ELSE Head(s) + SumSeq(Tail(s))

\* np.mean of a list of finite numbers: NaN (and a RuntimeWarning) when empty
NpMean(s) == IF Len(s) = 0 THEN NaN ELSE Frac(SumSeq(s), Len(s))

\* 1000 * ln(N), rounded
LnMilli == <<0, 693, 1099, 1386, 1609, 1792, 1946, 2079, 2197, 2303,
             2398, 2485, 2565, 2639, 2708, 2773, 2833, 2890, 2944, 2996>>
NpLog(N) == Frac(LnMilli[N], 1000)

FMulInt(c, a) == IF a.k = "fin" THEN Frac(c * a.num, a.den) ELSE a
FAdd(a, b) == FSub(a, FMulInt(0 - 1, b))

\* ------------------------------------------------------------- KFold
Min2(a, b) == IF a < b THEN a ELSE b

\* KFold(n_splits=k) raises ValueError unless k >= 2
KFoldRaises(k) == k <= 1

\* the i-th test fold of KFold(k).split over s samples, without shuffling:
\* contiguous, the first s % k folds one sample longer
TestIdx(s, k, i) ==
    LET base == s \div k
        start == (i - 1) * base + Min2(i - 1, s % k)
        size == base + (IF i <= s % k THEN 1 ELSE 0)
    IN  (start + 1)..(start + size)

TrainIdx(s, k, i) == (1..s) \ TestIdx(s, k, i)

NSplits == Min2(MaxSplits, nseq)
Full == 1..nseq

\* the fold whose training part is the view
FoldOf(view) == CHOOSE i \in 1..NSplits : TrainIdx(nseq, NSplits, i) = view

\* ------------------------------------------------------------- oracle
\* what the trainer does for one (state count, training view): the fit
\* fails, the fit succeeds and the score raises, or the score is logL
Answer(f, s, v) == [fit |-> f, score |-> s, logL |-> v]
Pinned == Answer(TRUE, TRUE, 0 - 1)
Successes(V) == {Answer(TRUE, TRUE, v) : v \in V}
OutcomesOver(V) ==
    {Answer(FALSE, FALSE, 0 - 1), Answer(TRUE, FALSE, 0 - 1)} \cup Successes(V)

Outcomes == OutcomesOver(LogLs)

Fitted(O) == {o \in O : o.fit}

\* GaussianHMM(n_components=n, ...).fit(X, lengths) returns without raising
FitOK(n, view) ==
    IF view = Full THEN full[n].fit ELSE fold[<<n, FoldOf(view)>>].fit

\* data views: a set of sequences of this_word, or the whole of another word
OwnData(idx) == [word |-> this_word, idx |-> idx]
WordData(w) == IF w = this_word THEN OwnData(Full) ELSE [word |-> w, idx |-> {}]

\* the oracle's answer to model.score(data)
ScoreOf(m, d) ==
    IF d.word # this_word THEN other[<<m.n, d.word>>]
    ELSE IF m.view = Full THEN full[m.n]
    ELSE IF d.idx = Full
         THEN [fit |-> TRUE, score |-> partialOK, logL |-> 0 - 1]
    ELSE fold[<<m.n, FoldOf(m.view)>>]

\* hmm_model.score(data) raises: AttributeError on None, or the trainer's error
ScoreRaises(m, d) == m = None \/ ~ScoreOf(m, d).score
ScoreVal(m, d) == ScoreOf(m, d).logL

\* ------------------------------------------------------------- base_model
\* a call ends by returning a value or by raising
Ret(v) == [exc |-> FALSE, val |-> v]
Exc == [exc |-> TRUE, val |-> None]

base_model_uncaught(num_states, view) ==
    IF FitOK(num_states, view) THEN Ret(Model(num_states, view)) ELSE Exc

base_model(num_states, view) ==
    IF FitOK(num_states, view) THEN Ret(Model(num_states, view)) ELSE Ret(None)

\* ------------------------------------------------------------- names
\* names bound at line 88: the locals of select and the module globals
BoundNames ==
    {"self", "best_score", "best_model", "n_components", "hmm_model",
     "logL", "logN", "math", "statistics", "warnings", "np", "GaussianHMM",
     "KFold", "combine_sequences", "ModelSelector", "SelectorConstant",
     "SelectorBIC", "SelectorDIC", "SelectorCV", "len"}
NameError(name) == name \notin BoundNames

\* -2 * logL + parameters * logN, with parameters from state count n
BICScore(logL, n, frames, d) ==
    FAdd(Fin((0 - 2) * logL), FMulInt(n * n + 2 * n * d - 1, NpLog(frames)))

BICImproves(score, best) == FLess(score, best)
DICImproves_reversed(score, best) == FLess(score, best)
DICImproves(score, best) == FGreater(score, best)
CVImproves(score, best) == FGreater(score, best)

\* the words the DIC loop scores against, in the order of self.words.keys()
ScoredWords == [i \in 1..(nwords - 1) |-> i + 1]

\* ------------------------------------------------------------- Init
FullEnvs(sel, s, O) ==
    IF sel = "SelectorConstant"
    THEN {f \in [AllNs -> O] : \A n \in AllNs \ {NConstant} : f[n] = Pinned}
    ELSE IF sel = "SelectorCV"
    THEN {f \in [AllNs -> O] :
            /\ \A n \in AllNs \ {NConstant} : f[n] = Pinned
            /\ s > 1 => f[NConstant] = Pinned}
    ELSE [AllNs -> O]

OtherEnvs(sel, w, f, O) ==
    IF sel = "SelectorDIC"
    THEN {o \in [AllNs \X (2..w) -> Fitted(O)] :
            \A n \in AllNs : \A v \in 2..w :
                (~f[n].fit \/ n \notin Ns) => o[<<n, v>>] = Pinned}
    ELSE {[p \in AllNs \X (2..w) |-> Pinned]}

FoldEnvs(sel, s, O) ==
    LET k == Min2(MaxSplits, s) IN
    IF sel = "SelectorCV"
    THEN {g \in [AllNs \X (1..k) -> O] :
            \A n \in AllNs \ Ns : \A i \in 1..k : g[<<n, i>>] = Pinned}
    ELSE {[p \in AllNs \X (1..k) |-> Pinned]}

\* a selector of one of the classes sels, constructed for a word of a
\* corpus, with a trainer whose answers are drawn from O
InitFrom(sels, O) ==
    /\ selector \in sels
    /\ nseq \in 1..MaxSeq
    /\ nwords \in 1..(MaxOthers + 1)
    /\ (selector # "SelectorDIC" => nwords = MaxOthers + 1)
    /\ (selector \notin {"SelectorCV", "SelectorBIC"} => nseq = MaxSeq)
    /\ full \in FullEnvs(selector, nseq, O)
    /\ other \in OtherEnvs(selector, nwords, full, O)
    /\ fold \in FoldEnvs(selector, nseq, O)
    /\ partialOK \in (IF selector = "SelectorCV" /\ nseq > 1 THEN BOOLEAN ELSE {TRUE})
    /\ X = 1..nseq
    /\ pc = "call"
    /\ n_components = MinN
    /\ best_score = NegInf
    /\ best_model = None
    /\ hmm_model = None
    /\ logL_arr = <<>>
    /\ fold_i = 1
    /\ cv_log = <<>>
    /\ outcome = Running
    /\ ret_line = 0

Init == InitFrom(Selectors, Outcomes)

\* every strategy, every pattern of fit and score failures, one log-likelihood
InitOutcomes == InitFrom(Selectors, OutcomesOver({0 - 1}))

\* the score of SelectorDIC is symmetric in the other words: it is enough to
\* list them by non-decreasing log-likelihood under the first candidate
OthersOrdered ==
    \A v, w \in 2..nwords :
        v < w => other[<<MinN, v>>].logL <= other[<<MinN, w>>].logL

\* SelectorDIC with a trainer that never fails
InitDIC == InitFrom({"SelectorDIC"}, Successes(LogLs)) /\ OthersOrdered

\* ------------------------------------------------------------- actions
\* how a call that ends select() shows to the caller
Finish(c) == IF c.exc THEN Raised ELSE Returned(c.val)

\* SelectorConstant.select
ConstantSelect ==
    /\ pc = "call"
    /\ selector = "SelectorConstant"
    /\ outcome' = Finish(base_model(NConstant, X))
    /\ ret_line' = 61
    /\ pc' = "done"
    /\ UNCHANGED <<env, X, n_components, best_score, best_model, hmm_model,
                   logL_arr, fold_i, cv_log>>

\* the statements of a searching select() before its for loop
Enter ==
    /\ pc = "call"
    /\ selector # "SelectorConstant"
    /\ best_score' = (IF selector = "SelectorBIC" THEN PosInf ELSE NegInf)
    /\ best_model' = None
    /\ n_components' = MinN
    /\ pc' = "for"
    /\ UNCHANGED <<env, X, hmm_model, logL_arr, fold_i, cv_log, outcome, ret_line>>

\* one iteration of the loop of SelectorBIC.select
BICBody ==
    /\ pc = "for"
    /\ selector = "SelectorBIC"
    /\ n_components <= MaxN
    /\ LET c == base_model(n_components, X)
           m == c.val
           raises == \/ c.exc
                     \/ ScoreRaises(m, OwnData(X))
                     \/ NameError("n")
           score == BICScore(ScoreVal(m, OwnData(X)), n_components,
                             Cardinality(X) * SeqLen, FeatDim)
       IN  /\ hmm_model' = (IF c.exc THEN hmm_model ELSE m)
           /\ IF raises
              THEN /\ pc' = "except"
                   /\ UNCHANGED <<best_score, best_model, n_components>>
              ELSE /\ pc' = "for"
                   /\ n_components' = n_components + 1
                   /\ IF BICImproves(score, best_score)
                      THEN best_score' = score /\ best_model' = m
                      ELSE UNCHANGED <<best_score, best_model>>
    /\ UNCHANGED <<env, X, logL_arr, fold_i, cv_log, outcome, ret_line>>

\* one iteration of the outer loop of SelectorDIC.select
DICBody ==
    /\ pc = "for"
    /\ selector = "SelectorDIC"
    /\ n_components <= MaxN
    /\ LET c == base_model(n_components, X)
           m == c.val
           words == ScoredWords
           raises == \/ c.exc
                     \/ \E i \in 1..Len(words) : ScoreRaises(m, WordData(words[i]))
                     \/ ScoreRaises(m, OwnData(X))
           scores == [i \in 1..Len(words) |-> ScoreVal(m, WordData(words[i]))]
           score == FSub(Fin(ScoreVal(m, OwnData(X))), NpMean(scores))
       IN  /\ hmm_model' = (IF c.exc THEN hmm_model ELSE m)
           /\ IF raises
              THEN /\ pc' = "except"
                   /\ UNCHANGED <<best_score, best_model, n_components>>
              ELSE /\ pc' = "for"
                   /\ n_components' = n_components + 1
                   /\ IF DICImproves(score, best_score)
                      THEN best_score' = score /\ best_model' = m
                      ELSE UNCHANGED <<best_score, best_model>>
    /\ UNCHANGED <<env, X, logL_arr, fold_i, cv_log, outcome, ret_line>>

\* SelectorCV.select: the head of one outer iteration
CVSplit ==
    /\ pc = "for"
    /\ selector = "SelectorCV"
    /\ n_components <= MaxN
    /\ IF KFoldRaises(NSplits)
       THEN /\ pc' = "except"
            /\ UNCHANGED <<logL_arr, hmm_model, fold_i>>
       ELSE /\ pc' = "fold"
            /\ logL_arr' = <<>>
            /\ hmm_model' = None
            /\ fold_i' = 1
    /\ UNCHANGED <<env, X, n_components, best_score, best_model, cv_log,
                   outcome, ret_line>>

\* SelectorCV.select: one iteration of the loop over the splits
CVFold ==
    /\ pc = "fold"
    /\ fold_i <= NSplits
    /\ LET cv_train_idx == TrainIdx(nseq, NSplits, fold_i)
           cv_test_idx == TestIdx(nseq, NSplits, fold_i)
           c == base_model(n_components, cv_train_idx)
           m == c.val
           raises == c.exc \/ ScoreRaises(m, OwnData(cv_test_idx))
       IN  /\ X' = cv_train_idx
           /\ hmm_model' = (IF c.exc THEN hmm_model ELSE m)
           /\ cv_log' = Append(cv_log, [n |-> n_components,
                                        train |-> cv_train_idx,
                                        test |-> cv_test_idx])
           /\ IF raises
              THEN /\ pc' = "except"
                   /\ UNCHANGED <<logL_arr, fold_i>>
              ELSE /\ pc' = "fold"
                   /\ logL_arr' = Append(logL_arr, ScoreVal(m, OwnData(cv_test_idx)))
                   /\ fold_i' = fold_i + 1
    /\ UNCHANGED <<env, n_components, best_score, best_model, outcome, ret_line>>

\* SelectorCV.select: the tail of one outer iteration
CVAverage ==
    /\ pc = "fold"
    /\ fold_i > NSplits
    /\ LET avg_score == NpMean(logL_arr)
       IN  IF CVImproves(avg_score, best_score)
           THEN best_score' = avg_score /\ best_model' = hmm_model
           ELSE UNCHANGED <<best_score, best_model>>
    /\ n_components' = n_components + 1
    /\ pc' = "for"
    /\ UNCHANGED <<env, X, hmm_model, logL_arr, fold_i, cv_log, outcome, ret_line>>

ReturnLine(sel) ==
    IF sel = "SelectorBIC" THEN 94 ELSE IF sel = "SelectorDIC" THEN 128 ELSE 164

ExceptLine(sel) ==
    IF sel = "SelectorBIC" THEN 96 ELSE IF sel = "SelectorDIC" THEN 130 ELSE 166

\* return best_model, once the range is exhausted
ReturnBest ==
    /\ pc = "for"
    /\ n_components > MaxN
    /\ outcome' = Returned(best_model)
    /\ ret_line' = ReturnLine(selector)
    /\ pc' = "done"
    /\ UNCHANGED <<env, X, n_components, best_score, best_model, hmm_model,
                   logL_arr, fold_i, cv_log>>

\* except: return self.base_model(self.n_constant)
Fallback ==
    /\ pc = "except"
    /\ outcome' = Finish(base_model(NConstant, X))
    /\ ret_line' = ExceptLine(selector)
    /\ pc' = "done"
    /\ UNCHANGED <<env, X, n_components, best_score, best_model, hmm_model,
                   logL_arr, fold_i, cv_log>>

Next ==
    \/ ConstantSelect
    \/ Enter
    \/ BICBody
    \/ DICBody
    \/ CVSplit
    \/ CVFold
    \/ CVAverage
    \/ ReturnBest
    \/ Fallback

Spec == Init /\ [][Next]_vars

SpecOutcomes == InitOutcomes /\ [][Next]_vars

NextDIC ==
    \/ Enter
    \/ DICBody
    \/ ReturnBest

SpecDIC == InitDIC /\ [][NextDIC]_vars

\* ------------------------------------------------------------- results
Done == pc = "done"
ReturnedModel == outcome.kind = "returned" /\ outcome.val # None
OtherWords == 2..nwords
Folds == 1..NSplits

RECURSIVE SumOver(_, _)
SumOver(f, S) ==
    IF S = {} THEN 0
    ELSE LET x == CHOOSE y \in S : TRUE IN f[x] + SumOver(f, S \ {x})

\* own_logL - mean(other_logL) from the oracle, over the other words W
DICMargin(n, W) ==
    FSub(Fin(full[n].logL),
         Frac(SumOver([w \in W |-> other[<<n, w>>].logL], W), Cardinality(W)))

\* -2*logL + p*log(N) from the oracle, p from the candidate's own state count
BICValue(n) == BICScore(full[n].logL, n, nseq * SeqLen, FeatDim)

\* mean held-out log-likelihood from the oracle, over the folds F
CVAverageOf(n, F) ==
    Frac(SumOver([i \in F |-> fold[<<n, i>>].logL], F), Cardinality(F))

ScoredOthers(n) == {w \in OtherWords : other[<<n, w>>].score}
ScoredFolds(n) == {i \in Folds : fold[<<n, i>>].score}

FallbackLines == {96, 130, 166}

\* C1: for each of the four strategies and every combination of fit and
\* score failures of the trainer, select() ends by returning a model or
\* None; no failure is propagated to the caller.
C1_NoFailurePropagates ==
    /\ outcome.kind # "raised"
    /\ Done => outcome.kind = "returned"

\* C1 witness: a fold of SelectorCV failed and the fallback fit failed too
C1_Witness ==
    /\ Done
    /\ selector = "SelectorCV"
    /\ ret_line = 166
    /\ outcome = Returned(None)
    /\ \E i \in Folds : ~fold[<<NConstant, i>>].fit

\* C2: whatever select() returns is None or a model that can score the
\* word's own full data without error.
C2_ReturnedModelScoresFullData ==
    (Done /\ ReturnedModel) => ~ScoreRaises(outcome.val, OwnData(Full))

\* C3: when every state count fits and scores, SelectorBIC.select() returns
\* the full-data candidate of the range whose -2*logL + p*log(N) is minimal.
C3_BICReturnsMinimum ==
    (/\ Done
     /\ selector = "SelectorBIC"
     /\ \A n \in Ns : full[n].score)
    => /\ ReturnedModel
       /\ outcome.val.view = Full
       /\ outcome.val.n \in Ns
       /\ \A n \in Ns : ~FLess(BICValue(n), BICValue(outcome.val.n))

DICAllSucceed ==
    \A n \in Ns : full[n].score /\ \A w \in OtherWords : other[<<n, w>>].score

\* C4: when every fit and every score call succeeds and there is another
\* word, SelectorDIC.select() returns the full-data candidate of the range
\* that maximizes own_logL - mean(other_logL over the other words).
C4_DICReturnsMaximum ==
    (/\ Done
     /\ selector = "SelectorDIC"
     /\ nwords >= 2
     /\ DICAllSucceed)
    => /\ ReturnedModel
       /\ outcome.val.view = Full
       /\ outcome.val.n \in Ns
       /\ \A n \in Ns :
            ~FGreater(DICMargin(n, OtherWords), DICMargin(outcome.val.n, OtherWords))

\* C4 witness: a full search whose winner is the last state count, with
\* other words that score differently
C4_Witness ==
    /\ Done
    /\ selector = "SelectorDIC"
    /\ nwords = MaxOthers + 1
    /\ DICAllSucceed
    /\ ret_line = 128
    /\ ReturnedModel
    /\ outcome.val.n = MaxN
    /\ FGreater(DICMargin(MaxN, OtherWords), DICMargin(MinN, OtherWords))
    /\ \E v, w \in OtherWords : other[<<MaxN, v>>].logL # other[<<MaxN, w>>].logL

\* C5: the model SelectorCV.select() returns for the winning state count has
\* that state count and was fitted on all of the word's sequences.
C5_CVWinnerFittedOnFullData ==
    (/\ Done
     /\ selector = "SelectorCV"
     /\ ret_line = 164
     /\ ReturnedModel)
    => /\ outcome.val.view = Full
       /\ outcome.val.n \in Ns
       /\ \A n \in Ns :
            ~FGreater(CVAverageOf(n, Folds), CVAverageOf(outcome.val.n, Folds))

\* C6: in SelectorBIC and SelectorDIC a fit failure for one state count does
\* not abort the search: when some state count fails to fit and another one
\* fits, select() returns the best-scoring fitted candidate, not the fallback.
C6_SearchSurvivesFitFailure ==
    (/\ Done
     /\ selector \in {"SelectorBIC", "SelectorDIC"}
     /\ selector = "SelectorDIC" => nwords >= 2
     /\ \E n \in Ns : ~full[n].fit
     /\ \E n \in Ns : full[n].fit
     /\ \A n \in Ns : full[n].fit =>
            full[n].score /\ \A w \in OtherWords : other[<<n, w>>].score)
    => /\ ReturnedModel
       /\ outcome.val.view = Full
       /\ outcome.val.n \in Ns
       /\ full[outcome.val.n].fit
       /\ \A n \in Ns : full[n].fit =>
            IF selector = "SelectorBIC"
            THEN ~FLess(BICValue(n), BICValue(outcome.val.n))
            ELSE ~FGreater(DICMargin(n, OtherWords),
                           DICMargin(outcome.val.n, OtherWords))

\* C7: a failed score contribution is left out of the aggregate and nothing
\* else: SelectorDIC scores a candidate by the mean over the other words it
\* could be scored on, SelectorCV by the mean over the folds that fitted and
\* scored, and the search goes on to return the best candidate.
C7_ScoreFailureDropsOnlyContribution ==
    /\ (/\ Done
        /\ selector = "SelectorDIC"
        /\ \A n \in Ns : full[n].score /\ ScoredOthers(n) # {}
        /\ \E n \in Ns : ScoredOthers(n) # OtherWords)
       => /\ ReturnedModel
          /\ outcome.val.n \in Ns
          /\ \A n \in Ns :
               ~FGreater(DICMargin(n, ScoredOthers(n)),
                         DICMargin(outcome.val.n, ScoredOthers(outcome.val.n)))
    /\ (/\ Done
        /\ selector = "SelectorCV"
        /\ nseq >= 2
        /\ \A n \in Ns : ScoredFolds(n) # {}
        /\ \E n \in Ns : ScoredFolds(n) # Folds)
       => /\ ReturnedModel
          /\ outcome.val.n \in Ns
          /\ \A n \in Ns :
               ~FGreater(CVAverageOf(n, ScoredFolds(n)),
                         CVAverageOf(outcome.val.n, ScoredFolds(outcome.val.n)))

\* C8: whenever SelectorBIC, SelectorDIC or SelectorCV falls back to the
\* constant baseline, the fallback fit is made on all of the word's
\* sequences and the model returned has n_constant states.
C8_FallbackFitsFullData ==
    (Done /\ ret_line \in FallbackLines)
    => /\ X = Full
       /\ ReturnedModel => outcome.val = Model(NConstant, Full)

\* C9: select() returns None only as the outcome of the constant-baseline
\* fit base_model(n_constant).
C9_NoneOnlyFromConstantFit ==
    (Done /\ outcome = Returned(None))
    => /\ ret_line \in FallbackLines \cup {61}
       /\ ~FitOK(NConstant, X)

EvaluatedFolds(n) == {i \in 1..Len(cv_log) : cv_log[i].n = n}

\* C10: when no fit or score fails, SelectorCV evaluates for every state count
\* exactly min(3, s) folds, every sequence held out in exactly one of them
\* and trained on in the others, also when s < 3.
C10_FoldCountIsMinOfThreeAndSequences ==
    (/\ Done
     /\ selector = "SelectorCV"
     /\ \A n \in Ns : \A i \in Folds : fold[<<n, i>>].score)
    => \A n \in Ns :
         /\ Cardinality(EvaluatedFolds(n)) = Min2(MaxSplits, nseq)
         /\ \A q \in Full :
              Cardinality({i \in EvaluatedFolds(n) : q \in cv_log[i].test}) = 1
         /\ \A i \in EvaluatedFolds(n) : cv_log[i].train = Full \ cv_log[i].test

====
